---- MODULE Spec2Model ----
(***************************************************************************)
(* Model of src/app1.py: a Streamlit page that loads a salary table,       *)
(* filters it by four pill selectors and renders metrics, four chart       *)
(* panels and a detail table.  Streamlit runs the whole script once when   *)
(* the page opens and once more after every widget interaction, so one     *)
(* script run is one action.                                               *)
(***************************************************************************)
EXTENDS Integers, Sequences, FiniteSets, TLC

VARIABLES
    arquivo,                \* rows of dados_salarios_limpos.csv (the input)
    cache,                  \* st.cache_data entry of carregar_dados
    df,                     \* global df as it is when the run ends
    anos_selecionados,
    senioridades_selecionadas,
    contratos_selecionados,
    tamanhos_selecionados,
    df_filtrado,
    salario_medio,
    salario_mediano,
    salario_maximo,
    total_registros,
    cargo_mais_frequente,
    cargo_mais_comum,
    top_cargos,
    remoto_contagem,
    df_ds,
    df_pais,
    pagina,                 \* elements the run put on the page, in order
    excecao,                \* exception that ended the run, "none" otherwise
    linha,                  \* source line that raised, 0 otherwise
    sigla_in,               \* argument of a direct converter_sigla call
    sigla_out               \* its outcome

vars == <<arquivo, cache, df, anos_selecionados, senioridades_selecionadas,
          contratos_selecionados, tamanhos_selecionados, df_filtrado,
          salario_medio, salario_mediano, salario_maximo, total_registros,
          cargo_mais_frequente, cargo_mais_comum, top_cargos, remoto_contagem,
          df_ds, df_pais, pagina, excecao, linha, sigla_in, sigla_out>>

---------------------------------------------------------------------------
(* Bounds of the model *)

MaxRows == 3
MaxCargoRows == 3
MaxPaisRows == 2
MinTopRows == 9
MaxTopRows == 12
MaxTopLivres == 6
NumTopTitles == 11
MaxSiglaLen == 3

---------------------------------------------------------------------------
(* Python values *)

\* A name of the script's namespace is unbound (<<>>) or bound to v (<<v>>).
Unbound == <<>>
Bound(v) == <<v>>
IsBound(x) == Len(x) = 1
ValueOf(x) == x[1]

\* Cell values of the residencia column and arguments of converter_sigla:
\* a str is its sequence of characters; the other kinds carry none.
PyStr(cs) == [kind |-> "str", chars |-> cs]
PyNone == [kind |-> "None", chars |-> <<>>]
PyInt == [kind |-> "int", chars |-> <<>>]
PyNaN == [kind |-> "nan", chars |-> <<>>]

\* Outcome of evaluating an expression: a value, or an exception.
Return(v) == [exc |-> "none", value |-> v]
Raise(e) == [exc |-> e, value |-> PyNone]

\* Numbers (float64 results of mean, and ints) as reduced fractions.
RECURSIVE Gcd(_, _)
Gcd(a, b) == IF b = 0 THEN a ELSE Gcd(b, a % b)

Num(n, d) == LET g == Gcd(n, d) IN [num |-> n \div g, den |-> d \div g]
NumLess(a, b) == a.num * b.den < b.num * a.den

Alphabet == {"S", "U", "Z", "s", "u", "z", "ß"}

CodePoint(c) ==
    CASE c = "S" -> 83 [] c = "U" -> 85 [] c = "Z" -> 90
      [] c = "s" -> 115 [] c = "u" -> 117 [] c = "z" -> 122 [] c = "ß" -> 223

\* str.upper() of one character (full Unicode case mapping: "ß" gives "SS").
UpperChar(c) ==
    CASE c = "s" -> <<"S">> [] c = "u" -> <<"U">> [] c = "z" -> <<"Z">>
      [] c = "ß" -> <<"S", "S">> [] OTHER -> <<c>>

\* str.lower() of one character.
LowerChar(c) ==
    CASE c = "S" -> <<"s">> [] c = "U" -> <<"u">> [] c = "Z" -> <<"z">>
      [] OTHER -> <<c>>

RECURSIVE Upper(_)
Upper(cs) == IF cs = <<>> THEN <<>> ELSE UpperChar(Head(cs)) \o Upper(Tail(cs))

RECURSIVE Lower(_)
Lower(cs) == IF cs = <<>> THEN <<>> ELSE LowerChar(Head(cs)) \o Lower(Tail(cs))

\* x.upper() on any object: only str has the attribute.
upper(x) == IF x.kind = "str" THEN Return(PyStr(Upper(x.chars)))
            ELSE Raise("AttributeError")

---------------------------------------------------------------------------
(* converter_sigla, lines 8-12 *)

\* The alpha_2 index of pycountry.countries (keys lower-cased), cut to the
\* countries whose codes can be spelled with Alphabet.
Alpha2Index ==
    (<<"u", "s">> :> <<"U", "S", "A">>) @@ (<<"s", "s">> :> <<"S", "S", "D">>)

\* pycountry.countries.get(alpha_2=v): the entry, or None when there is none.
CountriesGet(v) ==
    IF Lower(v.chars) \in DOMAIN Alpha2Index
    THEN Return(PyStr(Alpha2Index[Lower(v.chars)]))
    ELSE Return(PyNone)

\* The expression of line 10; .alpha_3 of None raises AttributeError.
SiglaBody(sigla) ==
    LET u == upper(sigla) IN
    IF u.exc # "none" THEN u
    ELSE LET c == CountriesGet(u.value) IN
         IF c.value.kind = "None" THEN Raise("AttributeError") ELSE c

\* the function without its try/except: the exception of line 10 escapes
converter_sigla_sem_try(sigla) == SiglaBody(sigla)

\* try: return <line 10>  except: return None
converter_sigla(sigla) ==
    LET r == SiglaBody(sigla) IN
    IF r.exc # "none" THEN Return(PyNone) ELSE r

---------------------------------------------------------------------------
(* Tables *)

\* Job titles of the model, in the order Python compares str (code points).
TitleOrder ==
    <<"AI Engineer", "Analytics Engineer", "BI Developer", "Data Analyst",
      "Data Architect", "Data Engineer", "Data Scientist", "ML Engineer",
      "ML Researcher", "Research Analyst", "Research Engineer",
      "Research Scientist", "Software Engineer", "Statistician">>

TitleRank(t) == CHOOSE i \in 1..Len(TitleOrder) : TitleOrder[i] = t
StrLess(a, b) == TitleRank(a) < TitleRank(b)

\* pd.read_csv: the rows in file order under a RangeIndex 0..n-1.
read_csv(rows) ==
    [i \in 1..Len(rows) |->
        [idx |-> i - 1, ano |-> rows[i].ano, senioridade |-> rows[i].senioridade,
         contrato |-> rows[i].contrato, tamanho_empresa |-> rows[i].tamanho_empresa,
         cargo |-> rows[i].cargo, remoto |-> rows[i].remoto,
         residencia |-> rows[i].residencia, usd |-> rows[i].usd]]

\* Series.unique() as the set of a column's values
Unique(t, col) == {t[i][col] : i \in 1..Len(t)}

---------------------------------------------------------------------------
(* Filtering, lines 54-59 *)

\* isin that takes an empty selection for "no filter"
isin_vazio_tudo(t, col, values) ==
    [i \in 1..Len(t) |-> values = {} \/ t[i][col] \in values]

\* Series.isin(values), one boolean per row
isin(t, col, values) == [i \in 1..Len(t) |-> t[i][col] \in values]

\* a & b on boolean Series
MaskAnd(a, b) == [i \in 1..Len(a) |-> a[i] /\ b[i]]

\* the selected rows collected in reverse
RECURSIVE BoolIndexInvertido(_, _)
BoolIndexInvertido(t, mask) ==
    IF t = <<>> THEN <<>>
    ELSE IF mask[1] THEN BoolIndexInvertido(Tail(t), Tail(mask)) \o <<t[1]>>
         ELSE BoolIndexInvertido(Tail(t), Tail(mask))

\* df[mask]: the rows whose mask entry is True, labels and order kept
RECURSIVE BoolIndex(_, _)
BoolIndex(t, mask) ==
    IF t = <<>> THEN <<>>
    ELSE IF mask[1] THEN <<t[1]>> \o BoolIndex(Tail(t), Tail(mask))
         ELSE BoolIndex(Tail(t), Tail(mask))

\* the four isin masks joined with | instead of &
MascaraOr(t, anos, sens, conts, tams) ==
    [i \in 1..Len(t) |-> isin(t, "ano", anos)[i] \/ isin(t, "senioridade", sens)[i]
                         \/ isin(t, "contrato", conts)[i]
                         \/ isin(t, "tamanho_empresa", tams)[i]]

\* the mask of lines 55-58
Mascara(t, anos, sens, conts, tams) ==
    MaskAnd(MaskAnd(MaskAnd(isin(t, "ano", anos),
                            isin(t, "senioridade", sens)),
                    isin(t, "contrato", conts)),
            isin(t, "tamanho_empresa", tams))

\* df[ ... ] of lines 54-59
Filtrar(t, anos, sens, conts, tams) ==
    BoolIndex(t, Mascara(t, anos, sens, conts, tams))

---------------------------------------------------------------------------
(* Series and groupby operations used by the aggregates *)

Col(t, col) == [i \in 1..Len(t) |-> t[i][col]]

RECURSIVE Sum(_)
Sum(s) == IF s = <<>> THEN 0 ELSE Head(s) + Sum(Tail(s))

\* Series.mean() and Series.max() of a non-empty int column
mean(s) == Num(Sum(s), Len(s))
max(s) == CHOOSE m \in {s[i] : i \in 1..Len(s)} : \A i \in 1..Len(s) : s[i] <= m

\* A stable sort: equal elements keep their order.
StableSort(s, Less(_, _)) ==
    LET before(j, i) == Less(s[j], s[i]) \/ (~Less(s[i], s[j]) /\ j < i)
        pos(i) == 1 + Cardinality({j \in 1..Len(s) : before(j, i)})
    IN [k \in 1..Len(s) |-> s[CHOOSE i \in 1..Len(s) : pos(i) = k]]

\* The elements of a set in ascending order
SortSet(S, Less(_, _)) ==
    [k \in 1..Cardinality(S) |->
        CHOOSE x \in S : Cardinality({y \in S : Less(y, x)}) = k - 1]

Count(s, v) == Cardinality({i \in 1..Len(s) : s[i] = v})

\* first position of v in s
FirstPos(s, v) == CHOOSE i \in 1..Len(s) : s[i] = v /\ \A j \in 1..(i - 1) : s[j] # v

\* the most frequent values in order of first appearance, unsorted
mode_unsorted(s) ==
    LET vals == {s[i] : i \in 1..Len(s)}
        top == {v \in vals : \A w \in vals : Count(s, w) <= Count(s, v)}
        first(a, b) == FirstPos(s, a) < FirstPos(s, b)
    IN SortSet(top, first)

\* Series.mode() of a str column: the most frequent values, sorted
mode(s) ==
    LET vals == {s[i] : i \in 1..Len(s)}
        top == {v \in vals : \A w \in vals : Count(s, w) <= Count(s, v)}
    IN SortSet(top, StrLess)

\* the usd values of the rows of t whose column col holds v, in row order
RECURSIVE UsdOf(_, _, _)
UsdOf(t, col, v) ==
    IF t = <<>> THEN <<>>
    ELSE IF t[1][col] = v THEN <<t[1].usd>> \o UsdOf(Tail(t), col, v)
         ELSE UsdOf(Tail(t), col, v)

\* df.groupby('cargo')['usd'].mean(): one entry per title, titles sorted
GroupMeanCargo(t) ==
    LET keys == SortSet(Unique(t, "cargo"), StrLess)
    IN [k \in 1..Len(keys) |-> [cargo |-> keys[k], usd |-> mean(UsdOf(t, "cargo", keys[k]))]]

UsdLess(a, b) == NumLess(a.usd, b.usd)
UsdGreater(a, b) == NumLess(b.usd, a.usd)

Prefix(s, n) == [i \in 1..(IF n < Len(s) THEN n ELSE Len(s)) |-> s[i]]

\* Series.nsmallest(n)
nsmallest(s, n) == Prefix(StableSort(s, UsdLess), n)

\* Series.nlargest(n): the n largest in descending order, ties keep first
nlargest(s, n) == Prefix(StableSort(s, UsdGreater), n)

\* Series.sort_values(ascending=True)
sort_values(s) == StableSort(s, UsdLess)

\* Series.value_counts().reset_index(): one row per value, most frequent
\* first; the order among equal counts (first seen here) is not relied on
value_counts(s) ==
    LET vals == {s[i] : i \in 1..Len(s)}
        more(a, b) == Count(s, a) > Count(s, b)
                      \/ (Count(s, a) = Count(s, b) /\ FirstPos(s, a) < FirstPos(s, b))
        keys == SortSet(vals, more)
    IN [k \in 1..Len(keys) |-> [remoto |-> keys[k], count |-> Count(s, keys[k])]]

\* order of str by code points
RECURSIVE CharsLess(_, _)
CharsLess(a, b) ==
    IF b = <<>> THEN FALSE
    ELSE IF a = <<>> THEN TRUE
    ELSE IF Head(a) # Head(b) THEN CodePoint(Head(a)) < CodePoint(Head(b))
    ELSE CharsLess(Tail(a), Tail(b))

\* order of group keys: numbers before str, str by code points
KeyLess(a, b) ==
    IF a.kind = "str" /\ b.kind = "str" THEN CharsLess(a.chars, b.chars)
    ELSE a.kind # "str" /\ b.kind = "str"

\* df.groupby('residencia')['usd'].mean().reset_index(): NaN keys dropped
GroupMeanResidencia(t) ==
    LET keys == SortSet({v \in Unique(t, "residencia") : v.kind # "nan"}, KeyLess)
    IN [k \in 1..Len(keys) |->
          [residencia |-> keys[k], usd |-> mean(UsdOf(t, "residencia", keys[k]))]]

---------------------------------------------------------------------------
(* One run of the script, lines 26-157 *)

\* The script's namespace and page before line 54: df is loaded, the four
\* pill selections are read, nothing else is bound.
Namespace(table, anos, sens, conts, tams) ==
    [df |-> Bound(table),
     anos_selecionados |-> anos, senioridades_selecionadas |-> sens,
     contratos_selecionados |-> conts, tamanhos_selecionados |-> tams,
     df_filtrado |-> Unbound,
     salario_medio |-> Unbound, salario_mediano |-> Unbound,
     salario_maximo |-> Unbound, total_registros |-> Unbound,
     cargo_mais_frequente |-> Unbound, cargo_mais_comum |-> Unbound,
     top_cargos |-> Unbound, remoto_contagem |-> Unbound,
     df_ds |-> Unbound, df_pais |-> Unbound,
     pagina |-> <<"filtros">>, excecao |-> "none", linha |-> 0]

\* An uncaught exception ends the run; Streamlit shows it on the page.
Abort(e, exc, line) ==
    [e EXCEPT !.excecao = exc, !.linha = line, !.pagina = @ \o <<"excecao">>]

Show(e, els) == [e EXCEPT !.pagina = @ \o els]

\* statement S runs only if no earlier statement raised
Then(e, S(_)) == IF e.excecao # "none" THEN e ELSE S(e)

\* lines 54-63
Filtragem(e) ==
    Show([e EXCEPT !.df_filtrado =
              Bound(Filtrar(ValueOf(e.df), e.anos_selecionados,
                            e.senioridades_selecionadas, e.contratos_selecionados,
                            e.tamanhos_selecionados))],
         <<"titulo">>)

\* line 71: the targets and the values of the tuple assignment
UnpackTargets ==
    <<"salario_medio", "salario_mediano", "salario_maximo", "total_registros",
      "cargo_mais_comum">>
UnpackValues == <<Num(0, 1), Num(0, 1), Num(0, 1), "">>

\* a, b, ... = v, w, ...: ValueError unless as many values as targets,
\* raised before any target is bound
Unpack(e, targets, values, line) ==
    IF Len(targets) # Len(values) THEN Abort(e, "ValueError", line)
    ELSE [n \in DOMAIN e |->
            IF \E i \in 1..Len(targets) : targets[i] = n
            THEN Bound(values[CHOOSE i \in 1..Len(targets) : targets[i] = n])
            ELSE e[n]]

\* line 69 with the modes left in order of first appearance
ModaPrimeira(e) ==
    [e EXCEPT !.cargo_mais_frequente =
        Bound(mode_unsorted(Col(ValueOf(e.df_filtrado), "cargo"))[1])]

\* line 69: df_filtrado['cargo'].mode()[0]
Moda(e) ==
    [e EXCEPT !.cargo_mais_frequente =
        Bound(mode(Col(ValueOf(e.df_filtrado), "cargo"))[1])]

\* lines 65-71
Metricas(e) ==
    LET f == ValueOf(e.df_filtrado) IN
    IF Len(f) # 0
    THEN Moda([e EXCEPT !.salario_medio = Bound(mean(Col(f, "usd"))),
                        !.salario_maximo = Bound(Num(max(Col(f, "usd")), 1)),
                        !.total_registros = Bound(Num(Len(f), 1))])
    ELSE Unpack(e, UnpackTargets, UnpackValues, 71)

\* lines 73-77: each st.metric reads one name; an unbound name is a NameError
Cartoes(e) ==
    IF ~IsBound(e.salario_medio) THEN Abort(e, "NameError", 74)
    ELSE IF ~IsBound(e.salario_maximo)
         THEN Abort(Show(e, <<"metric_salario_medio">>), "NameError", 75)
    ELSE IF ~IsBound(e.total_registros)
         THEN Abort(Show(e, <<"metric_salario_medio", "metric_salario_maximo">>),
                    "NameError", 76)
    ELSE IF ~IsBound(e.cargo_mais_frequente)
         THEN Abort(Show(e, <<"metric_salario_medio", "metric_salario_maximo",
                              "metric_total_registros">>), "NameError", 77)
    ELSE Show(e, <<"metric_salario_medio", "metric_salario_maximo",
                   "metric_total_registros", "metric_cargo_mais_frequente">>)

\* the n of nlargest, line 88
TopN == 10

\* line 88 with nsmallest in place of nlargest
TopCargosMenores(f) == sort_values(nsmallest(GroupMeanCargo(f), TopN))

\* line 88
TopCargos(f) == sort_values(nlargest(GroupMeanCargo(f), TopN))

\* lines 86-100
GraficoCargos(e) ==
    LET f == ValueOf(e.df_filtrado) IN
    IF Len(f) # 0
    THEN Show([e EXCEPT !.top_cargos = Bound(TopCargos(f))], <<"grafico_cargos">>)
    ELSE Show(e, <<"aviso_cargos">>)

\* lines 102-114
GraficoHist(e) ==
    IF Len(ValueOf(e.df_filtrado)) # 0 THEN Show(e, <<"grafico_hist">>)
    ELSE Show(e, <<"aviso_hist">>)

\* line 120: remoto_contagem.columns = [...] renames that frame's columns
RenomearColunas(e) ==
    LET r == ValueOf(e.remoto_contagem) IN
    [e EXCEPT !.remoto_contagem =
        Bound([k \in 1..Len(r) |->
                  [tipo_trabalho |-> r[k].remoto, quantidade |-> r[k].count]])]

\* lines 117-132
GraficoRemoto(e) ==
    LET f == ValueOf(e.df_filtrado) IN
    IF Len(f) # 0
    THEN Show(RenomearColunas(
                 [e EXCEPT !.remoto_contagem = Bound(value_counts(Col(f, "remoto")))]),
              <<"grafico_remoto">>)
    ELSE Show(e, <<"aviso_remoto">>)

\* the lambda of line 138 on one value: x.upper() is evaluated by the caller
\* of converter_sigla, outside its try
Lambda138(x) ==
    LET u == upper(x) IN
    IF u.exc # "none" THEN u ELSE converter_sigla(u.value)

\* Series.apply(f): f on every value in order; the first exception escapes
Apply(s, F(_)) ==
    LET out == [k \in 1..Len(s) |-> F(s[k])] IN
    IF \E k \in 1..Len(s) : out[k].exc # "none"
    THEN Raise(out[CHOOSE k \in 1..Len(s) :
                      out[k].exc # "none" /\ \A j \in 1..(k - 1) : out[j].exc = "none"].exc)
    ELSE [exc |-> "none", value |-> [k \in 1..Len(s) |-> out[k].value]]

\* line 138's assignment made to df instead of df_pais
AtribuirIsoAlphaEmDf(e, col) ==
    LET t == ValueOf(e.df) IN
    [e EXCEPT !.df =
        Bound([k \in 1..Len(t) |->
                  [idx |-> t[k].idx, ano |-> t[k].ano, senioridade |-> t[k].senioridade,
                   contrato |-> t[k].contrato, tamanho_empresa |-> t[k].tamanho_empresa,
                   cargo |-> t[k].cargo, remoto |-> t[k].remoto,
                   residencia |-> t[k].residencia, usd |-> t[k].usd,
                   iso_alpha |-> converter_sigla(t[k].residencia).value]])]

\* line 138: df_pais['iso_alpha'] = col adds the column to df_pais
AtribuirIsoAlpha(e, col) ==
    LET p == ValueOf(e.df_pais) IN
    [e EXCEPT !.df_pais =
        Bound([k \in 1..Len(p) |->
                  [residencia |-> p[k].residencia, usd |-> p[k].usd,
                   iso_alpha |-> col[k]]])]

\* lines 134-152
GraficoPaises(e) ==
    LET f == ValueOf(e.df_filtrado) IN
    IF Len(f) # 0
    THEN LET ds == BoolIndex(f, [i \in 1..Len(f) |-> f[i].cargo = "Data Scientist"])
             pais == GroupMeanResidencia(ds)
             e1 == [e EXCEPT !.df_ds = Bound(ds), !.df_pais = Bound(pais)]
             col == Apply(Col(pais, "residencia"), Lambda138)
         IN IF col.exc # "none" THEN Abort(e1, col.exc, 138)
            ELSE Show(AtribuirIsoAlpha(e1, col.value), <<"grafico_paises">>)
    ELSE Show(e, <<"aviso_paises">>)

\* lines 155-157
Tabela(e) == Show(e, <<"tabela">>)

RunScript(table, anos, sens, conts, tams) ==
    Then(Then(Then(Then(Then(Then(Then(
        Filtragem(Namespace(table, anos, sens, conts, tams)),
        Metricas), Cartoes), GraficoCargos), GraficoHist), GraficoRemoto),
        GraficoPaises), Tabela)

---------------------------------------------------------------------------
(* Actions *)

\* The script's globals and page after a run on `table`
Resultado(table, anos, sens, conts, tams) ==
    \E e \in {RunScript(table, anos, sens, conts, tams)} :
        /\ df' = e.df
        /\ anos_selecionados' = e.anos_selecionados
        /\ senioridades_selecionadas' = e.senioridades_selecionadas
        /\ contratos_selecionados' = e.contratos_selecionados
        /\ tamanhos_selecionados' = e.tamanhos_selecionados
        /\ df_filtrado' = e.df_filtrado
        /\ salario_medio' = e.salario_medio
        /\ salario_mediano' = e.salario_mediano
        /\ salario_maximo' = e.salario_maximo
        /\ total_registros' = e.total_registros
        /\ cargo_mais_frequente' = e.cargo_mais_frequente
        /\ cargo_mais_comum' = e.cargo_mais_comum
        /\ top_cargos' = e.top_cargos
        /\ remoto_contagem' = e.remoto_contagem
        /\ df_ds' = e.df_ds
        /\ df_pais' = e.df_pais
        /\ pagina' = e.pagina
        /\ excecao' = e.excecao
        /\ linha' = e.linha

\* lines 22-26: carregar_dados under st.cache_data reads the file on the first
\* call and hands out a copy of the stored table on every call
carregar_dados == IF IsBound(cache) THEN ValueOf(cache) ELSE read_csv(arquivo)

\* The page is opened: the file is read and cached, every pill is selected
\* (default=..._disponiveis, lines 37-50).
PrimeiraExecucao ==
    /\ ~IsBound(cache)
    /\ \E t \in {carregar_dados} :
       /\ cache' = Bound(t)
       /\ Resultado(t, Unique(t, "ano"), Unique(t, "senioridade"),
                    Unique(t, "contrato"), Unique(t, "tamanho_empresa"))
    /\ UNCHANGED <<arquivo, sigla_in, sigla_out>>

\* a pill is clicked: the option enters or leaves the selection
Toggle(sel, v) == IF v \in sel THEN sel \ {v} ELSE sel \cup {v}

\* The user clicks one pill of one of the four selectors (lines 38-50) and
\* the script reruns with the new selection.
Interacao ==
    /\ IsBound(cache)
    /\ \E t \in {carregar_dados} :
        \/ \E v \in Unique(t, "ano") :
              Resultado(t, Toggle(anos_selecionados, v), senioridades_selecionadas,
                        contratos_selecionados, tamanhos_selecionados)
        \/ \E v \in Unique(t, "senioridade") :
              Resultado(t, anos_selecionados, Toggle(senioridades_selecionadas, v),
                        contratos_selecionados, tamanhos_selecionados)
        \/ \E v \in Unique(t, "contrato") :
              Resultado(t, anos_selecionados, senioridades_selecionadas,
                        Toggle(contratos_selecionados, v), tamanhos_selecionados)
        \/ \E v \in Unique(t, "tamanho_empresa") :
              Resultado(t, anos_selecionados, senioridades_selecionadas,
                        contratos_selecionados, Toggle(tamanhos_selecionados, v))
    /\ UNCHANGED <<arquivo, cache, sigla_in, sigla_out>>

\* converter_sigla called on sigla_in
Chamada ==
    /\ ~IsBound(sigla_out)
    /\ sigla_out' = Bound(converter_sigla(sigla_in))
    /\ UNCHANGED <<arquivo, cache, df, anos_selecionados, senioridades_selecionadas,
                   contratos_selecionados, tamanhos_selecionados, df_filtrado,
                   salario_medio, salario_mediano, salario_maximo, total_registros,
                   cargo_mais_frequente, cargo_mais_comum, top_cargos,
                   remoto_contagem, df_ds, df_pais, pagina, excecao, linha, sigla_in>>

---------------------------------------------------------------------------
(* Inputs *)

Anos == {2020, 2021}
Senioridades == {"junior", "senior"}
Contratos == {"integral", "parcial"}
Tamanhos == {"grande", "pequena"}
US == PyStr(<<"U", "S">>)
ZZ == PyStr(<<"Z", "Z">>)

SeqsUpTo(S, n) == UNION {[1..k -> S] : k \in 0..n}

LinhaBase ==
    [ano |-> 2020, senioridade |-> "junior", contrato |-> "integral",
     tamanho_empresa |-> "grande", cargo |-> "Data Scientist", remoto |-> "remoto",
     residencia |-> US, usd |-> 100]

ColunasFiltro == {"ano", "senioridade", "contrato", "tamanho_empresa"}

\* the base row and the rows that differ from it in one filtered column
LinhasFiltro ==
    {r \in [ano : Anos, senioridade : Senioridades, contrato : Contratos,
            tamanho_empresa : Tamanhos, cargo : {"Data Scientist"},
            remoto : {"remoto"}, residencia : {US}, usd : {100}] :
        \A c, d \in ColunasFiltro : c # d => (r[c] = LinhaBase[c] \/ r[d] = LinhaBase[d])}

\* rows that differ in year and job title
LinhasCargo ==
    [ano : Anos, senioridade : {"senior"}, contrato : {"integral"},
     tamanho_empresa : {"grande"},
     cargo : {"Data Analyst", "Data Scientist", "ML Engineer"},
     remoto : {"remoto"}, residencia : {US}, usd : {100}]

\* rows that differ in job title, residence and salary
LinhasPais ==
    [ano : {2021}, senioridade : {"senior"}, contrato : {"integral"},
     tamanho_empresa : {"grande"}, cargo : {"Data Analyst", "Data Scientist"},
     remoto : {"remoto"}, residencia : {US, ZZ, PyInt, PyNaN}, usd : {100, 200}]

Remotos == <<"remoto", "presencial", "hibrido">>

\* tables of MinTopRows..MaxTopRows rows over NumTopTitles job titles, one
\* title per row in turn; the first MaxTopLivres rows earn 100 or 300, the
\* others 200
TabelasTop ==
    UNION {{[r \in 1..n |->
               [ano |-> 2021, senioridade |-> "senior", contrato |-> "integral",
                tamanho_empresa |-> "grande",
                cargo |-> TitleOrder[((r - 1) % NumTopTitles) + 1],
                remoto |-> Remotos[(r % 3) + 1], residencia |-> US,
                usd |-> IF r <= MaxTopLivres THEN u[r] ELSE 200]]
            : u \in [1..MaxTopLivres -> {100, 300}]} : n \in MinTopRows..MaxTopRows}

SiglaInputs == {PyStr(cs) : cs \in SeqsUpTo(Alphabet, MaxSiglaLen)} \cup {PyInt, PyNaN, PyNone}

InitWith(tabelas, siglas) ==
    /\ arquivo \in tabelas
    /\ sigla_in \in siglas
    /\ cache = Unbound /\ df = Unbound
    /\ anos_selecionados = {} /\ senioridades_selecionadas = {}
    /\ contratos_selecionados = {} /\ tamanhos_selecionados = {}
    /\ df_filtrado = Unbound
    /\ salario_medio = Unbound /\ salario_mediano = Unbound
    /\ salario_maximo = Unbound /\ total_registros = Unbound
    /\ cargo_mais_frequente = Unbound /\ cargo_mais_comum = Unbound
    /\ top_cargos = Unbound /\ remoto_contagem = Unbound
    /\ df_ds = Unbound /\ df_pais = Unbound
    /\ pagina = <<>> /\ excecao = "none" /\ linha = 0
    /\ sigla_out = Unbound

\* the file holds at least one row
Init == InitWith(SeqsUpTo(LinhasFiltro, MaxRows) \ {<<>>}, {PyNone})
InitCargo == InitWith(SeqsUpTo(LinhasCargo, MaxCargoRows) \ {<<>>}, {PyNone})
InitPais == InitWith(SeqsUpTo(LinhasPais, MaxPaisRows) \ {<<>>}, {PyNone})
InitTop == InitWith(TabelasTop, {PyNone})
InitSigla == InitWith({<<>>}, SiglaInputs)

Next == PrimeiraExecucao \/ Interacao
NextSigla == Chamada

Spec == Init /\ [][Next]_vars
SpecCargo == InitCargo /\ [][Next]_vars
SpecPais == InitPais /\ [][Next]_vars
SpecTop == InitTop /\ [][Next]_vars
SpecSigla == InitSigla /\ [][NextSigla]_vars

---------------------------------------------------------------------------
(* Properties *)

\* the loaded table and the filtered subset of the last run
Tabela0 == read_csv(arquivo)
Sub == ValueOf(df_filtrado)
Rodou == IsBound(df_filtrado)
SubVazio == Rodou /\ Len(Sub) = 0
SubNaoVazio == Rodou /\ Len(Sub) > 0

Satisfaz(r) ==
    /\ r.ano \in anos_selecionados
    /\ r.senioridade \in senioridades_selecionadas
    /\ r.contrato \in contratos_selecionados
    /\ r.tamanho_empresa \in tamanhos_selecionados

Elems(s) == {s[i] : i \in 1..Len(s)}

\* C1: after every run the filtered subset holds exactly the rows of the
\* full table whose ano, senioridade, contrato and tamanho_empresa are all in
\* the selected sets: none missing, none extra, same count.
C1_FiltroExato ==
    Rodou =>
        /\ Elems(Sub) = {r \in Elems(Tabela0) : Satisfaz(r)}
        /\ Len(Sub) = Cardinality({i \in 1..Len(Tabela0) : Satisfaz(Tabela0[i])})

\* C1 witness: only 2021 is selected, some row is kept and some row dropped.
C1_Witness ==
    /\ Rodou /\ anos_selecionados = {2021}
    /\ Len(Sub) >= 1 /\ Len(Sub) < Len(Tabela0)

\* C2: if any of the four selected sets is empty, the subset is empty.
C2_SelecaoVazia ==
    (Rodou /\ (anos_selecionados = {} \/ senioridades_selecionadas = {}
               \/ contratos_selecionados = {} \/ tamanhos_selecionados = {}))
        => Sub = <<>>

\* C2 witness: one selector is empty, the three others select every row of a
\* table that has rows.
C2_Witness ==
    /\ Rodou /\ Len(Tabela0) > 0 /\ Sub = <<>>
    /\ contratos_selecionados = {}
    /\ anos_selecionados = Unique(Tabela0, "ano")
    /\ senioridades_selecionadas = Unique(Tabela0, "senioridade")
    /\ tamanhos_selecionados = Unique(Tabela0, "tamanho_empresa")

\* C3 as claimed: on an empty subset the metrics block does not raise and
\* leaves mean 0, max 0, count 0 and most frequent title "" for the cards.
C3_MetricasVazias ==
    SubVazio =>
        /\ ~(linha \in 65..77)
        /\ salario_medio = Bound(Num(0, 1))
        /\ salario_maximo = Bound(Num(0, 1))
        /\ total_registros = Bound(Num(0, 1))
        /\ cargo_mais_frequente = Bound("")

\* C4 as claimed: on an empty subset the run reaches the detail table
\* without an error and every chart panel shows its warning.
C4_VazioNaoFatal ==
    SubVazio =>
        /\ excecao = "none"
        /\ {"aviso_cargos", "aviso_hist", "aviso_remoto", "aviso_paises", "tabela"}
              \subseteq Elems(pagina)

Cargos == Col(Sub, "cargo")
MaisFrequentes == {c \in Elems(Cargos) : \A d \in Elems(Cargos) : Count(Cargos, d) <= Count(Cargos, c)}

\* C5 as claimed: on a non-empty subset cargo_mais_frequente is a title of
\* maximal count, the one first met in row order when several tie.
C5_ModaPrimeiroVisto ==
    SubNaoVazio =>
        /\ IsBound(cargo_mais_frequente)
        /\ ValueOf(cargo_mais_frequente) \in MaisFrequentes
        /\ \A c \in MaisFrequentes :
              FirstPos(Cargos, ValueOf(cargo_mais_frequente)) <= FirstPos(Cargos, c)

\* C5 amended: on a non-empty subset cargo_mais_frequente is a title of
\* maximal count, the smallest in str order when several tie.
C5_ModaMenorTitulo ==
    SubNaoVazio =>
        /\ IsBound(cargo_mais_frequente)
        /\ ValueOf(cargo_mais_frequente) \in MaisFrequentes
        /\ \A c \in MaisFrequentes :
              TitleRank(ValueOf(cargo_mais_frequente)) <= TitleRank(c)

\* C5 witness: two titles tie and the one met first is not the smallest.
C5_Witness ==
    /\ SubNaoVazio /\ Cardinality(MaisFrequentes) >= 2
    /\ Cargos[1] \in MaisFrequentes
    /\ cargo_mais_frequente # Bound(Cargos[1])

\* the alpha_2 codes of the model's countries and their alpha_3 codes
Alpha3DoPais == (<<"U", "S">> :> <<"U", "S", "A">>) @@ (<<"S", "S">> :> <<"S", "S", "D">>)

\* two str of equal length that differ at most in the case of ASCII letters
IgualSemCaixa(a, b) ==
    /\ Len(a) = Len(b)
    /\ \A i \in 1..Len(a) : LowerChar(a[i]) = LowerChar(b[i])

Chamou == IsBound(sigla_out)
Saida == ValueOf(sigla_out)

\* C6 as claimed: converter_sigla never raises, returns the alpha_3 of the
\* country whose alpha_2 equals the input ignoring case, and None for every
\* unknown code, every str of another length and every non-str.
C6_SiglaOuNone ==
    Chamou =>
        /\ Saida.exc = "none"
        /\ IF sigla_in.kind = "str" /\ Len(sigla_in.chars) = 2
              /\ \E a \in DOMAIN Alpha3DoPais : IgualSemCaixa(sigla_in.chars, a)
           THEN \E a \in DOMAIN Alpha3DoPais :
                   /\ IgualSemCaixa(sigla_in.chars, a)
                   /\ Saida.value = PyStr(Alpha3DoPais[a])
           ELSE Saida.value = PyNone

\* C6 amended: converter_sigla never raises; it returns the alpha_3 of the
\* country whose alpha_2 equals, ignoring case, the upper-cased input
\* (upper-casing can change the length: "ß" gives "SS"), and None for every
\* other str and every non-str.
C6_SiglaMaiuscula ==
    Chamou =>
        /\ Saida.exc = "none"
        /\ IF sigla_in.kind = "str"
              /\ \E a \in DOMAIN Alpha3DoPais : IgualSemCaixa(Upper(sigla_in.chars), a)
           THEN \E a \in DOMAIN Alpha3DoPais :
                   /\ IgualSemCaixa(Upper(sigla_in.chars), a)
                   /\ Saida.value = PyStr(Alpha3DoPais[a])
           ELSE Saida.value = PyNone

\* C6 witness: a lower-case code was resolved.
C6_Witness ==
    /\ Chamou /\ sigla_in = PyStr(<<"u", "s">>)
    /\ Saida.value = PyStr(<<"U", "S", "A">>)

\* the alpha_3 a residence value resolves to, None when it has none
IsoEsperado(x) ==
    IF x.kind = "str" /\ Upper(x.chars) \in DOMAIN Alpha3DoPais
    THEN PyStr(Alpha3DoPais[Upper(x.chars)]) ELSE PyNone

CientistasEm(x) == {i \in 1..Len(Sub) : Sub[i].cargo = "Data Scientist" /\ Sub[i].residencia = x}

\* C7 as claimed: on a non-empty subset, building df_pais never raises; it
\* has one row per residence of a Data Scientist row, a residence whose
\* lookup fails has a null iso_alpha, every other residence has its alpha_3,
\* and every row has its mean salary.
C7_PaisNaoFatal ==
    SubNaoVazio =>
        /\ excecao = "none"
        /\ IsBound(df_pais)
        /\ \A x \in {PyInt, US, ZZ} :
              CientistasEm(x) # {} =>
                 \E k \in 1..Len(ValueOf(df_pais)) :
                    /\ ValueOf(df_pais)[k].residencia = x
                    /\ ValueOf(df_pais)[k].iso_alpha = IsoEsperado(x)
                    /\ ValueOf(df_pais)[k].usd =
                          Num(Sum([i \in 1..Len(Sub) |->
                                     IF i \in CientistasEm(x) THEN Sub[i].usd ELSE 0]),
                              Cardinality(CientistasEm(x)))

\* C8: the subset is a subsequence of the full table: index labels strictly
\* increase and every row is the table's row of that label.
C8_OrdemPreservada ==
    Rodou =>
        /\ \A k \in 1..Len(Sub) : Sub[k] = Tabela0[Sub[k].idx + 1]
        /\ \A k \in 1..(Len(Sub) - 1) : Sub[k].idx < Sub[k + 1].idx

\* C8 witness: a row is dropped between two kept rows.
C8_Witness ==
    /\ Rodou /\ Len(Sub) = 2
    /\ Sub[1].idx = 0 /\ Sub[2].idx = 2

\* C9: after every run df, and the cached table, are the table as loaded,
\* and filtering df again with the same selection gives the same subset.
C9_TabelaIntacta ==
    Rodou =>
        /\ df = Bound(Tabela0)
        /\ cache = Bound(Tabela0)
        /\ Bound(Filtrar(ValueOf(df), anos_selecionados, senioridades_selecionadas,
                         contratos_selecionados, tamanhos_selecionados)) = df_filtrado

\* C9 witness: a rerun on a narrowed selection built every derived table,
\* renamed remoto_contagem's columns and added iso_alpha to df_pais.
C9_Witness ==
    /\ SubNaoVazio /\ Len(Sub) < Len(Tabela0)
    /\ excecao = "none" /\ pagina[Len(pagina)] = "tabela"
    /\ IsBound(remoto_contagem) /\ ValueOf(remoto_contagem)[1].quantidade = Len(Sub)
    /\ IsBound(df_pais) /\ ValueOf(df_pais)[1].iso_alpha = PyStr(<<"U", "S", "A">>)

Titulos == Elems(Cargos)
MediaDe(c) == Num(Sum([i \in 1..Len(Sub) |-> IF Sub[i].cargo = c THEN Sub[i].usd ELSE 0]),
                  Count(Cargos, c))
Top == ValueOf(top_cargos)
NoTop == {Top[k].cargo : k \in 1..Len(Top)}

\* C10: on a non-empty subset top_cargos has one entry per title for
\* min(10, number of titles) titles, each with the title's mean salary, no
\* title left out has a higher mean than one kept, and the entries are in
\* ascending order of mean.
C10_TopCargos ==
    SubNaoVazio =>
        /\ IsBound(top_cargos)
        /\ Len(Top) = (IF Cardinality(Titulos) < 10 THEN Cardinality(Titulos) ELSE 10)
        /\ Cardinality(NoTop) = Len(Top)
        /\ NoTop \subseteq Titulos
        /\ \A k \in 1..Len(Top) : Top[k].usd = MediaDe(Top[k].cargo)
        /\ \A c \in Titulos \ NoTop : \A d \in NoTop : ~NumLess(MediaDe(d), MediaDe(c))
        /\ \A k \in 1..(Len(Top) - 1) : ~NumLess(Top[k + 1].usd, Top[k].usd)

\* C10 witness: more than ten titles, one left out with a strictly lower
\* mean than every title kept, and kept means that differ.
C10_Witness ==
    /\ SubNaoVazio /\ IsBound(top_cargos)
    /\ Cardinality(Titulos) > 10 /\ Len(Top) = 10
    /\ \E c \in Titulos \ NoTop : \A d \in NoTop : NumLess(MediaDe(c), MediaDe(d))
    /\ NumLess(Top[1].usd, Top[10].usd)

====
